---- MODULE Spec2Model ----
(***************************************************************************)
(* FlatCache (src/packages/file-entry-cache/benchmark.mjs, lines 240-970):  *)
(* a disk-backed key/value cache made of a CacheableMemory store, a         *)
(* FastLRU recency tracker, a pending-write map with a batch timer, a       *)
(* serialization cache and an auto-persist timer.  Every method is an       *)
(* operator from an instance record to an instance record, so that a        *)
(* method calling another (clear -> save -> flushPendingWrites) is one      *)
(* step.  Cache files hold well-formed text: parse never throws.            *)
(***************************************************************************)
EXTENDS Integers, Sequences, FiniteSets, TLC

(* ---------------------------- bounds ----------------------------------- *)
\* the clock runs over 0..MaxTime
MaxTime == 2
\* the capacity of the Recency Tracker that is exercised on its own
LruCapacity == 2

(* ------------------------- input domains ------------------------------- *)
Keys == {"a", "b"}
\* the order in which the store lists its entries
KeySeq == <<"a", "b">>
Values == {"v1", "v2"}
\* the calls set(key, value, ttl) that are made; ttl is in clock units and 0
\* stands for an omitted ttl.  The value v2 of "a" comes from the sibling file.
SetInputs == {<<"a", "v1", 0>>, <<"a", "v1", 1>>, <<"b", "v1", 0>>}
\* file names inside the cache directory: the instance's own and a sibling
CacheIds == {"cache1", "other"}
\* the keys a Recency Tracker is given: those of the cache and more, so that
\* a tracker on its own overflows
LruKeys == Keys \cup {"c", "d", "e"}

Undefined == "undefined"
Null == "null"
\* an optional value: None, or Some(x)
None == <<>>
Some(x) == <<x>>
\* expires: undefined (falsy in `item.expires && ...`)
NoExpire == 0

(* ------------------------- constructor options ------------------------- *)
\* options.cacheId
cacheId == "cache1"
\* options.inMemoryLruSize
inMemoryLruSize == 1
\* options.batchWriteSize
batchWriteSize == 2
\* options.persistInterval
persistInterval == 1

(* ------------------------- Memory Store -------------------------------- *)
\* CacheableMemory: key -> {value, expires}; an entry whose expires is in
\* the past is not observable.  A key without entry maps to Absent.
Absent == [value |-> Undefined, expires |-> NoExpire]
EmptyStore == [k \in Keys |-> Absent]

hasExpired(item, t) == item.expires # NoExpire /\ t > item.expires

\* set(key, value, {expire}): the entry keeps the given expiration
MemSetExpire(c, key, value, expires) ==
    [c EXCEPT ![key] = [value |-> value, expires |-> expires]]

\* set(key, value, ttl): a relative ttl gives expires = now + ttl
MemSet(c, key, value, ttl, t) ==
    MemSetExpire(c, key, value, IF ttl = 0 THEN NoExpire ELSE t + ttl)

MemGet(c, key, t) ==
    IF c[key] = Absent \/ hasExpired(c[key], t) THEN Undefined ELSE c[key].value

MemDelete(c, key) == [c EXCEPT ![key] = Absent]

MemClear(c) == EmptyStore

MemKeys(c, t) == {k \in Keys : c[k] # Absent /\ ~hasExpired(c[k], t)}

\* items: the live entries as {key, value, expires}, in the store's order
MemItems(c, t) ==
    LET live == SelectSeq(KeySeq, LAMBDA k : k \in MemKeys(c, t))
    IN [i \in 1..Len(live) |->
          [key |-> live[i], value |-> c[live[i]].value, expires |-> c[live[i]].expires]]

(* ------------------------- Snapshot Codec ------------------------------ *)
\* stringify(items): the text lists one flat <<key, value, expires>> per item
Stringify(items) == [i \in 1..Len(items) |-> <<items[i].key, items[i].value, items[i].expires>>]

\* parse(text): back to {key, value, expires} objects
Parse(text) == [i \in 1..Len(text) |-> [key |-> text[i][1], value |-> text[i][2], expires |-> text[i][3]]]

(* ------------------------- FastLRU ------------------------------------- *)
\* cache: the keys of the key->node map; prev/next: the links of each key's
\* node (Null for none, and for keys without a node)
NoLinks == [k \in LruKeys |-> Null]
EmptyLRU == [cache |-> {}, head |-> Null, tail |-> Null, prev |-> NoLinks, next |-> NoLinks]

addToFront(l, node) ==
    LET l1 == [l EXCEPT !.next[node] = l.head, !.prev[node] = Null]
        l2 == IF l1.head # Null THEN [l1 EXCEPT !.prev[l1.head] = node] ELSE l1
        l3 == [l2 EXCEPT !.head = node]
    IN IF l3.tail = Null THEN [l3 EXCEPT !.tail = node] ELSE l3

removeNode(l, node) ==
    LET p == l.prev[node]
        n == l.next[node]
        l1 == IF p # Null THEN [l EXCEPT !.next[p] = n] ELSE [l EXCEPT !.head = n]
    IN IF n # Null THEN [l1 EXCEPT !.prev[n] = p] ELSE [l1 EXCEPT !.tail = p]

\* a node dropped from the map is garbage: its links are never read again
dropNode(l, node) == [l EXCEPT !.cache = l.cache \ {node}, !.prev[node] = Null, !.next[node] = Null]

moveToFront(l, node) ==
    IF node = l.head THEN l ELSE addToFront(removeNode(l, node), node)

\* removeLRU that drops the most recently touched key
removeLRU_DropsHead(l) ==
    IF l.head = Null THEN l ELSE dropNode(removeNode(l, l.head), l.head)

removeLRU(l) ==
    IF l.tail = Null THEN l ELSE dropNode(removeNode(l, l.tail), l.tail)

LruTouch(l, key, capacity) ==
    IF key \in l.cache
    THEN moveToFront(l, key)
    ELSE LET l1 == addToFront([l EXCEPT !.cache = l.cache \cup {key}], key)
         IN IF Cardinality(l1.cache) > capacity THEN removeLRU(l1) ELSE l1

\* LruDelete that drops the key from the map and leaves its node on the list
LruDelete_MapOnly(l, key) == [l EXCEPT !.cache = l.cache \ {key}]

LruDelete(l, key) ==
    IF key \notin l.cache THEN l ELSE dropNode(removeNode(l, key), key)

\* LruClear that empties the map and keeps head and tail
LruClear_MapOnly(l) == [l EXCEPT !.cache = {}]

LruClear(l) == EmptyLRU

\* the keys on the linked list, walking next from head
RECURSIVE LruWalk(_, _, _)
LruWalk(l, node, fuel) ==
    IF node = Null \/ fuel = 0 THEN <<>> ELSE <<node>> \o LruWalk(l, l.next[node], fuel - 1)

LruList(l) == LruWalk(l, l.head, Cardinality(LruKeys) + 1)

(* ------------------------- FlatCache state ----------------------------- *)
VARIABLES
    cache,                    \* _cache: the CacheableMemory store
    lruCache,                 \* _lruCache: the FastLRU tracker
    changesSinceLastSave,     \* _changesSinceLastSave: the dirty flag
    serializationCache,       \* _serializationCache: None (null) or Some(text)
    serializationCacheValid,  \* _serializationCacheValid
    pendingWrites,            \* _pendingWrites: key -> value, Undefined when not in the map
    batchWriteTimer,          \* _batchWriteTimer is armed
    persistTimer,             \* _persistTimer is armed
    files,                    \* the files of the cache directory: id -> None or Some(text)
    dirExists,                \* the cache directory exists
    stream,                   \* the loadFileStream in flight: None or Some({id, streamData})
    events,                   \* the notifications emitted and callbacks invoked by the last call, in order
    lastOp,                   \* the last call: its name, argument and return value
    destroyed,                \* destroy() was called on the instance
    now                       \* Date.now()

vars == <<cache, lruCache, changesSinceLastSave, serializationCache, serializationCacheValid,
          pendingWrites, batchWriteTimer, persistTimer, files, dirExists, stream, events, lastOp, destroyed, now>>

\* the fields of the instance, and the disk it works on
memVars == <<cache, lruCache, changesSinceLastSave, serializationCache, serializationCacheValid,
             pendingWrites, batchWriteTimer, persistTimer>>
diskVars == <<files, dirExists>>

NoPending == [k \in Keys |-> Undefined]
PendingKeys(pw) == {k \in Keys : pw[k] # Undefined}

\* the instance and its disk as one record, with no notification emitted yet
Self ==
    [cache |-> cache, lruCache |-> lruCache, changesSinceLastSave |-> changesSinceLastSave,
     serializationCache |-> serializationCache, serializationCacheValid |-> serializationCacheValid,
     pendingWrites |-> pendingWrites, batchWriteTimer |-> batchWriteTimer,
     persistTimer |-> persistTimer, files |-> files, dirExists |-> dirExists, stream |-> stream,
     events |-> <<>>]

Become(s) ==
    /\ cache' = s.cache
    /\ lruCache' = s.lruCache
    /\ changesSinceLastSave' = s.changesSinceLastSave
    /\ serializationCache' = s.serializationCache
    /\ serializationCacheValid' = s.serializationCacheValid
    /\ pendingWrites' = s.pendingWrites
    /\ batchWriteTimer' = s.batchWriteTimer
    /\ persistTimer' = s.persistTimer
    /\ files' = s.files
    /\ dirExists' = s.dirExists
    /\ stream' = s.stream
    /\ events' = s.events

Op(name, arg, ret) == [name |-> name, arg |-> arg, ret |-> ret]

\* outcomes of the file system calls of one method
IoOutcomes == {"ok", "mkdirFail", "writeFail", "rmFail"}

(* ------------------------- FlatCache methods --------------------------- *)
emit(s, event) == [s EXCEPT !.events = Append(@, event)]

\* flushPendingWrites that also marks the cache as saved
flushPendingWrites_MarksSaved(s) ==
    [s EXCEPT !.batchWriteTimer = FALSE, !.pendingWrites = NoPending, !.changesSinceLastSave = FALSE]

flushPendingWrites(s) ==
    [s EXCEPT !.batchWriteTimer = FALSE, !.pendingWrites = NoPending]

\* scheduleBatchWrite that flushes at the threshold and otherwise arms nothing
scheduleBatchWrite_NoTimer(s) ==
    IF s.batchWriteTimer THEN s
    ELSE IF Cardinality(PendingKeys(s.pendingWrites)) >= batchWriteSize
         THEN flushPendingWrites(s)
         ELSE s

scheduleBatchWrite(s) ==
    IF s.batchWriteTimer THEN s
    ELSE IF Cardinality(PendingKeys(s.pendingWrites)) >= batchWriteSize
         THEN flushPendingWrites(s)
         ELSE [s EXCEPT !.batchWriteTimer = TRUE]

\* set that also removes from the store the key the tracker evicted
set_DropsEvicted(s, key, value, ttl, t) ==
    LET lru == LruTouch(s.lruCache, key, inMemoryLruSize)
        evicted == (s.lruCache.cache \cup {key}) \ lru.cache
    IN scheduleBatchWrite(
        [s EXCEPT !.cache = [k \in Keys |-> IF k \in evicted THEN Absent
                                            ELSE MemSet(@, key, value, ttl, t)[k]],
                  !.lruCache = lru,
                  !.changesSinceLastSave = TRUE,
                  !.serializationCacheValid = FALSE,
                  !.pendingWrites[key] = value])

set(s, key, value, ttl, t) ==
    scheduleBatchWrite(
        [s EXCEPT !.cache = MemSet(@, key, value, ttl, t),
                  !.lruCache = LruTouch(@, key, inMemoryLruSize),
                  !.changesSinceLastSave = TRUE,
                  !.serializationCacheValid = FALSE,
                  !.pendingWrites[key] = value])

\* delete that leaves the key in the pending writes
delete_KeepsPending(s, key) ==
    emit([s EXCEPT !.cache = MemDelete(@, key),
                   !.lruCache = LruDelete(@, key),
                   !.changesSinceLastSave = TRUE,
                   !.serializationCacheValid = FALSE],
         "delete")

delete(s, key) ==
    emit([s EXCEPT !.cache = MemDelete(@, key),
                   !.lruCache = LruDelete(@, key),
                   !.changesSinceLastSave = TRUE,
                   !.serializationCacheValid = FALSE,
                   !.pendingWrites[key] = Undefined],
         "delete")

\* get that also removes from the store the key the tracker evicted
get_DropsEvicted(s, key, t) ==
    IF MemGet(s.cache, key, t) # Undefined
    THEN LET lru == LruTouch(s.lruCache, key, inMemoryLruSize)
         IN [s EXCEPT !.lruCache = lru,
                      !.cache = [k \in Keys |-> IF k \in s.lruCache.cache \ lru.cache
                                                THEN Absent ELSE @[k]]]
    ELSE [s EXCEPT !.lruCache = LruDelete(@, key)]

\* get that leaves a key without live entry in the tracker
get_KeepsMissed(s, key, t) ==
    IF MemGet(s.cache, key, t) # Undefined
    THEN [s EXCEPT !.lruCache = LruTouch(@, key, inMemoryLruSize)]
    ELSE s

get(s, key, t) ==
    IF MemGet(s.cache, key, t) # Undefined
    THEN [s EXCEPT !.lruCache = LruTouch(@, key, inMemoryLruSize)]
    ELSE [s EXCEPT !.lruCache = LruDelete(@, key)]

\* save that always runs its body
saveExecutes_Always(dirty, force) == TRUE

\* save runs its body when the cache is dirty or the save is forced
saveExecutes(dirty, force) == dirty \/ force

\* the text save writes: the cached one when valid and truthy, else a fresh encode
saveData(s, t) ==
    IF s.serializationCacheValid /\ s.serializationCache # None
    THEN s.serializationCache[1]
    ELSE Stringify(MemItems(s.cache, t))

save(s, force, io, t) ==
    IF ~saveExecutes(s.changesSinceLastSave, force) THEN s
    ELSE LET s1 == flushPendingWrites(s)
             data == saveData(s1, t)
             s2 == [s1 EXCEPT !.serializationCache = Some(data), !.serializationCacheValid = TRUE]
         IN IF ~s2.dirExists /\ io = "mkdirFail" THEN emit(s2, "error")
            ELSE IF io = "writeFail" THEN emit([s2 EXCEPT !.dirExists = TRUE], "error")
            ELSE emit([s2 EXCEPT !.dirExists = TRUE,
                                 !.files[cacheId] = Some(data),
                                 !.changesSinceLastSave = FALSE],
                      "save")

clear(s, io, t) ==
    emit(save([s EXCEPT !.cache = MemClear(@),
                        !.lruCache = LruClear(@),
                        !.changesSinceLastSave = TRUE,
                        !.serializationCacheValid = FALSE,
                        !.pendingWrites = NoPending],
              FALSE, io, t),
         "clear")

\* the loop of loadFile stopping before the last entry
RECURSIVE replayItems_SkipLast(_, _)
replayItems_SkipLast(c, items) ==
    IF Len(items) <= 1 THEN c
    ELSE replayItems_SkipLast(MemSetExpire(c, Head(items).key, Head(items).value, Head(items).expires),
                              Tail(items))

\* the loop of loadFile setting the entries without their expiration
RECURSIVE replayItems_NoExpire(_, _)
replayItems_NoExpire(c, items) ==
    IF items = <<>> THEN c
    ELSE replayItems_NoExpire(MemSetExpire(c, Head(items).key, Head(items).value, NoExpire),
                              Tail(items))

\* the loop of loadFile: every decoded entry is set with its own expiration
RECURSIVE replayItems(_, _)
replayItems(c, items) ==
    IF items = <<>> THEN c
    ELSE replayItems(MemSetExpire(c, Head(items).key, Head(items).value, Head(items).expires),
                     Tail(items))

\* loadFile that replaces the store by the file's entries
loadFile_Replaces(s, id) ==
    IF s.dirExists /\ s.files[id] # None
    THEN [s EXCEPT !.cache = replayItems(EmptyStore, Parse(s.files[id][1])),
                   !.changesSinceLastSave = TRUE]
    ELSE s

loadFile(s, id) ==
    IF s.dirExists /\ s.files[id] # None
    THEN [s EXCEPT !.cache = replayItems(@, Parse(s.files[id][1])),
                   !.changesSinceLastSave = TRUE]
    ELSE s

\* load that reports a missing file as an error
load_ReportsMissing(s, id) ==
    IF s.files[id] = None THEN emit(s, "error") ELSE emit(loadFile(s, id), "load")

load(s, id) == emit(loadFile(s, id), "load")

\* loadFileStream that returns without a report when the file is missing
loadFileStream_Silent(s, id) ==
    IF s.files[id] # None
    THEN [s EXCEPT !.stream = Some([id |-> id, streamData |-> None])]
    ELSE s

\* loadFileStream(pathToFile, onProgress, onEnd, onError): a missing file is
\* reported at once, an existing one is read by the stream's handlers
loadFileStream(s, id) ==
    IF s.files[id] # None
    THEN [s EXCEPT !.stream = Some([id |-> id, streamData |-> None])]
    ELSE emit(emit(s, "error"), "onError")

\* readStream.on("data"): the text of the file, as it is when the stream
\* reads it, arrives in one chunk; a file that is gone by then is the
\* stream's "error" event
streamOnData(s) ==
    LET id == s.stream[1].id
    IN IF s.files[id] = None
       THEN emit(emit([s EXCEPT !.stream = None], "error"), "onError")
       ELSE emit([s EXCEPT !.stream = Some([id |-> id, streamData |-> s.files[id]])], "onProgress")

\* the end handler that replays the entries and leaves the dirty flag alone
streamOnEnd_KeepsFlag(s) ==
    emit([s EXCEPT !.cache = replayItems(@, Parse(s.stream[1].streamData[1])),
                   !.stream = None],
         "onEnd")

\* the end handler that replays only the keys the store has no entry for
streamOnEnd_KeepsStore(s) ==
    emit([s EXCEPT !.cache = [k \in Keys |->
                                IF @[k] # Absent THEN @[k]
                                ELSE replayItems(@, Parse(s.stream[1].streamData[1]))[k]],
                   !.changesSinceLastSave = TRUE,
                   !.stream = None],
         "onEnd")

\* readStream.on("end")
streamOnEnd(s) ==
    emit([s EXCEPT !.cache = replayItems(@, Parse(s.stream[1].streamData[1])),
                   !.changesSinceLastSave = TRUE,
                   !.stream = None],
         "onEnd")

\* removeCacheFile that removes the cache directory with all its files
removeCacheFile_RemovesDir(s, io) ==
    IF s.dirExists /\ s.files[cacheId] # None
    THEN IF io = "rmFail" THEN emit(s, "error")
         ELSE [s EXCEPT !.files = [i \in CacheIds |-> None], !.dirExists = FALSE]
    ELSE s

removeCacheFile(s, io) ==
    IF s.dirExists /\ s.files[cacheId] # None
    THEN IF io = "rmFail" THEN emit(s, "error") ELSE [s EXCEPT !.files[cacheId] = None]
    ELSE s

startAutoPersist(s) ==
    IF persistInterval > 0 THEN [s EXCEPT !.persistTimer = TRUE] ELSE s

stopAutoPersist(s) == [s EXCEPT !.persistTimer = FALSE]

\* destroy that leaves the auto-persist interval running
destroy_KeepsInterval(s, includeCacheDirectory, io) ==
    LET s1 == flushPendingWrites(
                  [s EXCEPT !.cache = MemClear(@),
                            !.lruCache = LruClear(@),
                            !.serializationCache = None,
                            !.serializationCacheValid = FALSE])
    IN IF io = "rmFail" THEN emit(s1, "error")
       ELSE emit([s1 EXCEPT !.files = IF includeCacheDirectory
                                      THEN [i \in CacheIds |-> None]
                                      ELSE [@ EXCEPT ![cacheId] = None],
                            !.dirExists = IF includeCacheDirectory THEN FALSE ELSE @,
                            !.changesSinceLastSave = FALSE],
                 "destroy")

destroy(s, includeCacheDirectory, io) ==
    LET s1 == stopAutoPersist(flushPendingWrites(
                  [s EXCEPT !.cache = MemClear(@),
                            !.lruCache = LruClear(@),
                            !.serializationCache = None,
                            !.serializationCacheValid = FALSE]))
    IN IF io = "rmFail" THEN emit(s1, "error")
       ELSE emit([s1 EXCEPT !.files = IF includeCacheDirectory
                                      THEN [i \in CacheIds |-> None]
                                      ELSE [@ EXCEPT ![cacheId] = None],
                            !.dirExists = IF includeCacheDirectory THEN FALSE ELSE @,
                            !.changesSinceLastSave = FALSE],
                 "destroy")

\* new FlatCache(options) on the disk as it is
constructor(s) ==
    LET fresh == [s EXCEPT !.stream = None,
                           !.cache = EmptyStore,
                           !.lruCache = EmptyLRU,
                           !.changesSinceLastSave = FALSE,
                           !.serializationCache = None,
                           !.serializationCacheValid = FALSE,
                           !.pendingWrites = NoPending,
                           !.batchWriteTimer = FALSE,
                           !.persistTimer = FALSE]
    IN IF persistInterval # 0 THEN startAutoPersist(fresh) ELSE fresh

\* create(options): a new instance that loads its own cache file
create(s) == load(constructor(s), cacheId)

(* ------------------------- initial state ------------------------------- *)
\* what an earlier run left in the sibling file of the cache directory
OtherText == Stringify(<<[key |-> "a", value |-> "v2", expires |-> NoExpire]>>)

\* a fresh instance in a cache directory that holds the sibling file and no
\* own file
Init ==
    /\ cache = EmptyStore
    /\ lruCache = EmptyLRU
    /\ changesSinceLastSave = FALSE
    /\ serializationCache = None
    /\ serializationCacheValid = FALSE
    /\ pendingWrites = NoPending
    /\ batchWriteTimer = FALSE
    /\ persistTimer = (persistInterval # 0)
    /\ dirExists = TRUE
    /\ stream = None
    /\ files = [i \in CacheIds |-> IF i # cacheId /\ dirExists THEN Some(OtherText) ELSE None]
    /\ events = <<>>
    /\ lastOp = Op("constructor", "", "")
    /\ destroyed = FALSE
    /\ now = 0

(* ------------------------- actions ------------------------------------- *)
Bool(b) == IF b THEN "true" ELSE "false"

Set(key, value, ttl) ==
    /\ ttl = 0 \/ now + ttl < MaxTime
    /\ Become(set(Self, key, value, ttl, now))
    /\ lastOp' = Op("set", key, "")
    /\ UNCHANGED <<destroyed, now>>

Delete(key) ==
    /\ Become(delete(Self, key))
    /\ lastOp' = Op("delete", key, "")
    /\ UNCHANGED <<destroyed, now>>

Get(key) ==
    /\ Become(get(Self, key, now))
    /\ lastOp' = Op("get", key, MemGet(cache, key, now))
    /\ UNCHANGED <<destroyed, now>>

Save(force, io) ==
    /\ io \in {"ok", "writeFail"} \/ (io = "mkdirFail" /\ ~dirExists)
    /\ Become(save(Self, force, io, now))
    /\ lastOp' = Op("save", Bool(force), "")
    /\ UNCHANGED <<destroyed, now>>

Clear(io) ==
    /\ io \in {"ok", "writeFail"} \/ (io = "mkdirFail" /\ ~dirExists)
    /\ Become(clear(Self, io, now))
    /\ lastOp' = Op("clear", "", "")
    /\ UNCHANGED <<destroyed, now>>

LoadFile(id) ==
    /\ Become(loadFile(Self, id))
    /\ lastOp' = Op("loadFile", id, "")
    /\ UNCHANGED <<destroyed, now>>

Load(id) ==
    /\ Become(load(Self, id))
    /\ lastOp' = Op("load", id, "")
    /\ UNCHANGED <<destroyed, now>>

RemoveCacheFile(io) ==
    /\ io \in {"ok", "rmFail"}
    /\ io = "rmFail" => files[cacheId] # None
    /\ Become(removeCacheFile(Self, io))
    /\ lastOp' = Op("removeCacheFile", "", Bool(io = "ok" /\ files[cacheId] # None))
    /\ UNCHANGED <<destroyed, now>>

Destroy(includeCacheDirectory, io) ==
    /\ io \in {"ok", "rmFail"}
    /\ Become(destroy(Self, includeCacheDirectory, io))
    /\ lastOp' = Op("destroy", Bool(includeCacheDirectory), "")
    /\ destroyed' = TRUE
    /\ UNCHANGED now

Construct ==
    /\ Become(constructor(Self))
    /\ lastOp' = Op("constructor", "", "")
    /\ destroyed' = FALSE
    /\ UNCHANGED now

\* a later run: create(options) replaces the instance
Create ==
    /\ Become(create(Self))
    /\ lastOp' = Op("create", "", "")
    /\ destroyed' = FALSE
    /\ UNCHANGED now

StartAutoPersist ==
    /\ Become(startAutoPersist(Self))
    /\ lastOp' = Op("startAutoPersist", "", "")
    /\ UNCHANGED <<destroyed, now>>

StopAutoPersist ==
    /\ Become(stopAutoPersist(Self))
    /\ lastOp' = Op("stopAutoPersist", "", "")
    /\ UNCHANGED <<destroyed, now>>

\* the setTimeout callback of scheduleBatchWrite
BatchWriteTimerFires ==
    /\ batchWriteTimer
    /\ Become(flushPendingWrites(Self))
    /\ lastOp' = Op("batchWriteTimer", "", "")
    /\ UNCHANGED <<destroyed, now>>

\* the setInterval callback of startAutoPersist
PersistTimerFires(io) ==
    /\ persistTimer
    /\ io \in {"ok", "writeFail"} \/ (io = "mkdirFail" /\ ~dirExists)
    /\ Become(save(Self, FALSE, io, now))
    /\ lastOp' = Op("persistTimer", "", "")
    /\ UNCHANGED <<destroyed, now>>

Tick ==
    /\ now < MaxTime
    /\ now' = now + 1
    /\ events' = <<>>
    /\ lastOp' = Op("tick", "", "")
    /\ UNCHANGED <<memVars, diskVars, stream, destroyed>>

\* one stream is in flight at a time
LoadFileStream(id) ==
    /\ stream = None
    /\ Become(loadFileStream(Self, id))
    /\ lastOp' = Op("loadFileStream", id, "")
    /\ UNCHANGED <<destroyed, now>>

StreamData ==
    /\ stream # None
    /\ stream[1].streamData = None
    /\ Become(streamOnData(Self))
    /\ lastOp' = Op("streamData", "", "")
    /\ UNCHANGED <<destroyed, now>>

StreamEnd ==
    /\ stream # None
    /\ stream[1].streamData # None
    /\ Become(streamOnEnd(Self))
    /\ lastOp' = Op("streamEnd", "", "")
    /\ UNCHANGED <<destroyed, now>>

\* touch, delete and clear called on the tracker alone
TrackerTouch(key) ==
    /\ lruCache' = LruTouch(lruCache, key, LruCapacity)
    /\ lastOp' = Op("touch", key, "")
    /\ UNCHANGED <<cache, changesSinceLastSave, serializationCache, serializationCacheValid,
                   pendingWrites, batchWriteTimer, persistTimer, files, dirExists, stream,
                   events, destroyed, now>>

TrackerDelete(key) ==
    /\ lruCache' = LruDelete(lruCache, key)
    /\ lastOp' = Op("delete", key, "")
    /\ UNCHANGED <<cache, changesSinceLastSave, serializationCache, serializationCacheValid,
                   pendingWrites, batchWriteTimer, persistTimer, files, dirExists, stream,
                   events, destroyed, now>>

TrackerClear ==
    /\ lruCache' = LruClear(lruCache)
    /\ lastOp' = Op("clear", "", "")
    /\ UNCHANGED <<cache, changesSinceLastSave, serializationCache, serializationCacheValid,
                   pendingWrites, batchWriteTimer, persistTimer, files, dirExists, stream,
                   events, destroyed, now>>

\* the calls made on an instance in use
Calls ==
    \/ \E in \in SetInputs : Set(in[1], in[2], in[3])
    \/ \E key \in Keys : Delete(key)
    \/ \E key \in Keys : Get(key)
    \/ \E force \in BOOLEAN, io \in IoOutcomes : Save(force, io)
    \/ \E io \in IoOutcomes : Clear(io)
    \/ \E id \in CacheIds : LoadFile(id)
    \/ \E id \in CacheIds : Load(id)
    \/ \E io \in IoOutcomes : RemoveCacheFile(io)

\* the timer callbacks and the clock
Timers ==
    \/ BatchWriteTimerFires
    \/ \E io \in IoOutcomes : PersistTimerFires(io)
    \/ Tick

Next == Calls \/ Timers

Spec == Init /\ [][Next]_vars

\* the life of instances: calls until destroy (no call is made on a destroyed
\* instance), timers that fire whenever they are armed, and the next
\* instances made by the constructor or by create()
NextLife ==
    \/ ~destroyed /\ Calls
    \/ Timers
    \/ ~destroyed /\ \E incl \in BOOLEAN, io \in IoOutcomes : Destroy(incl, io)
    \/ Construct
    \/ Create

SpecLife == Init /\ [][NextLife]_vars

\* runs that only set, delete, get and save, each followed by a later run
\* that starts with create()
NextRoundTrip ==
    \/ \E in \in SetInputs : Set(in[1], in[2], in[3])
    \/ \E key \in Keys : Delete(key)
    \/ \E key \in Keys : Get(key)
    \/ \E io \in IoOutcomes : Save(FALSE, io)
    \/ BatchWriteTimerFires
    \/ Tick
    \/ Create

SpecRoundTrip == Init /\ [][NextRoundTrip]_vars

\* calls interleaved with a streaming load, with the clock stopped
NextStream ==
    \/ \E in \in SetInputs : Set(in[1], in[2], in[3])
    \/ \E key \in Keys : Delete(key)
    \/ \E force \in BOOLEAN, io \in IoOutcomes : Save(force, io)
    \/ \E io \in IoOutcomes : RemoveCacheFile(io)
    \/ \E id \in CacheIds : LoadFile(id)
    \/ \E id \in CacheIds : LoadFileStream(id)
    \/ StreamData
    \/ StreamEnd

SpecStream == Init /\ [][NextStream]_vars

\* an instance with auto-persist enabled on which no save is ever called and
\* whose file writes succeed: the interval callback keeps being run while
\* the interval is armed
NextAutoPersist ==
    \/ \E in \in SetInputs : Set(in[1], in[2], in[3])
    \/ \E key \in Keys : Delete(key)
    \/ \E id \in CacheIds : LoadFile(id)
    \/ BatchWriteTimerFires
    \/ PersistTimerFires("ok")
    \/ StopAutoPersist
    \/ StartAutoPersist

SpecAutoPersist == Init /\ [][NextAutoPersist]_vars /\ WF_vars(PersistTimerFires("ok"))

\* sequences of set, get, delete, clear, save and load calls whose file
\* writes succeed, as time passes
NextTracker ==
    \/ \E in \in SetInputs : Set(in[1], in[2], in[3])
    \/ \E key \in Keys : Get(key)
    \/ \E key \in Keys : Delete(key)
    \/ Clear("ok")
    \/ \E force \in BOOLEAN : Save(force, "ok")
    \/ \E id \in CacheIds : Load(id)
    \/ Tick

SpecTracker == Init /\ [][NextTracker]_vars

\* a Recency Tracker of capacity LruCapacity used on its own
NextLRU ==
    \/ \E key \in LruKeys : TrackerTouch(key)
    \/ \E key \in LruKeys : TrackerDelete(key)
    \/ TrackerClear

SpecLRU == Init /\ [][NextLRU]_vars

\* calls whose file writes succeed, with the coalescer timer: once armed, its
\* callback is run after the delay
NextBatch ==
    \/ \E in \in SetInputs : Set(in[1], in[2], in[3])
    \/ \E key \in Keys : Delete(key)
    \/ \E key \in Keys : Get(key)
    \/ Clear("ok")
    \/ \E force \in BOOLEAN : Save(force, "ok")
    \/ \E id \in CacheIds : Load(id)
    \/ \E id \in CacheIds : LoadFile(id)
    \/ BatchWriteTimerFires
    \/ Tick

SpecBatch == Init /\ [][NextBatch]_vars /\ WF_vars(BatchWriteTimerFires)

(* ------------------------- observations -------------------------------- *)
Emitted(event) == \E i \in 1..Len(events) : events[i] = event

\* the entries the cache file at the configured path decodes to (none without a file)
FileItems == IF files[cacheId] = None THEN <<>> ELSE Parse(files[cacheId][1])

\* what all() shows: the live {key, value} pairs
Pairs(c, t) == {<<k, MemGet(c, k, t)>> : k \in MemKeys(c, t)}

(* ------------------------- C1 ------------------------------------------ *)
\* C1: a save that executes and whose write succeeds (it emits `save`, on its
\* own, from the auto-persist timer or inside clear) leaves the cache file
\* equal to the encoding of the Memory Store's item list at that moment.
C1_SaveWritesCurrentItems ==
    Emitted("save") => files[cacheId] = Some(Stringify(MemItems(cache, now)))

(* ------------------------- C2 ------------------------------------------ *)
\* C2: whenever the dirty flag is false, the cache file at the configured path
\* holds exactly the Memory Store's current entries.
C2_CleanMeansFileHoldsStore ==
    ~changesSinceLastSave => FileItems = MemItems(cache, now)

(* ------------------------- C3 ------------------------------------------ *)
\* what get(key) would return in the state
Got(key) == MemGet(cache, key, now)

\* the calls that may end the life of the value of key: set(key), delete(key), clear
C3_Ends(op, key) ==
    \/ op.name \in {"set", "delete"} /\ op.arg = key
    \/ op.name = "clear"

C4_RoundTrip ==
    [][(lastOp.name = "save" /\ Emitted("save") /\ lastOp'.name = "create")
          => \A t \in now..MaxTime : Pairs(cache', t) = Pairs(cache, t)]_vars

\* a new instance that got two entries back, one of them with an expiration
C4_Witness ==
    /\ lastOp.name = "create"
    /\ Pairs(cache, now) = {<<"a", "v1">>, <<"b", "v1">>}
    /\ cache["a"].expires # NoExpire
    /\ lruCache = EmptyLRU

(* ------------------------- C5 ------------------------------------------ *)
\* C5: a save that fails on a dirty cache emits only `error` and leaves the
\* dirty flag true; the next save, if its write succeeds, writes the encoding
\* of the current Memory Store contents and clears the dirty flag.
C5_FailedSaveThenRetry ==
    [][/\ (lastOp'.name = "save" /\ Emitted("error")' /\ changesSinceLastSave)
            => (events' = <<"error">> /\ changesSinceLastSave')
       /\ (lastOp.name = "save" /\ Emitted("error") /\ lastOp'.name = "save" /\ Emitted("save")')
            => /\ files'[cacheId] = Some(Stringify(MemItems(cache', now')))
               /\ ~changesSinceLastSave']_vars

(* ------------------------- C6 ------------------------------------------ *)
\* C6: save() without force on a clean cache changes nothing and emits
\* nothing; so a save() right after a successful save writes nothing, and the
\* dirty flag is false after each of them.
C6_SaveIdempotent ==
    /\ [][(lastOp'.name = "save" /\ lastOp'.arg = "false" /\ ~changesSinceLastSave)
             => (UNCHANGED <<memVars, diskVars>> /\ events' = <<>>)]_vars
    /\ [][(lastOp.name = "save" /\ Emitted("save") /\ lastOp'.name = "save" /\ lastOp'.arg = "false")
             => (UNCHANGED diskVars /\ events' = <<>> /\ ~changesSinceLastSave')]_vars
    /\ [](Emitted("save") => ~changesSinceLastSave)

\* the state after a save() that found a non-empty cache clean
C6_Witness ==
    /\ lastOp = Op("save", "false", "")
    /\ events = <<>>
    /\ ~changesSinceLastSave
    /\ files[cacheId] # None
    /\ MemKeys(cache, now) # {}

(* ------------------------- C7 ------------------------------------------ *)
InList(l, key) == \E i \in 1..Len(LruList(l)) : LruList(l)[i] = key

\* C7: after delete(k), get(k) is absent and k is absent from the key list,
\* from the tracker (its map and its list) and from the pending writes; the
\* value of every other key is unchanged.
C7_DeleteRemovesEverywhere ==
    [][lastOp'.name = "delete"
          => LET k == lastOp'.arg
             IN /\ MemGet(cache', k, now') = Undefined
                /\ k \notin MemKeys(cache', now')
                /\ k \notin lruCache'.cache
                /\ ~InList(lruCache', k)
                /\ pendingWrites'[k] = Undefined
                /\ \A j \in Keys \ {k} : Got(j)' = Got(j)]_vars

\* after delete("a"), which an earlier save had written to the file, with
\* "b" still stored, tracked and pending
C7_Witness ==
    /\ lastOp = Op("delete", "a", "")
    /\ files[cacheId] = Some(<<<<"a", "v1", 0>>, <<"b", "v1", 0>>>>)
    /\ Got("b") = "v1"
    /\ lruCache.cache = {"b"}
    /\ pendingWrites["b"] = "v1"
    /\ batchWriteTimer

(* ------------------------- C8 ------------------------------------------ *)
\* C8: after a clear() whose write succeeds the key list is empty, the cache
\* file exists and decodes to no entry, the tracker and the pending writes are
\* empty, the dirty flag is false and `save` was emitted before `clear`.
C8_ClearEmptiesAndSaves ==
    (lastOp.name = "clear" /\ Emitted("save"))
        => /\ MemKeys(cache, now) = {}
           /\ files[cacheId] # None
           /\ FileItems = <<>>
           /\ lruCache.cache = {}
           /\ LruList(lruCache) = <<>>
           /\ PendingKeys(pendingWrites) = {}
           /\ ~changesSinceLastSave
           /\ events = <<"save", "clear">>

\* a clear() that wrote the file of no entries, after time has passed
C8_Witness ==
    /\ lastOp.name = "clear"
    /\ events = <<"save", "clear">>
    /\ files[cacheId] = Some(<<>>)
    /\ serializationCache = Some(<<>>)
    /\ ~batchWriteTimer
    /\ now = MaxTime

(* ------------------------- C9 ------------------------------------------ *)
\* C9: a load or loadFile of an existing file puts every decoded entry in the
\* Memory Store with the file's value and the file's expiration, sets the
\* dirty flag and writes no file.
C9_LoadReplaysEntries ==
    [][(lastOp'.name \in {"load", "loadFile"} /\ files[lastOp'.arg] # None)
          => LET items == Parse(files[lastOp'.arg][1])
             IN /\ \A i \in 1..Len(items) :
                      cache'[items[i].key] = [value |-> items[i].value, expires |-> items[i].expires]
                /\ changesSinceLastSave'
                /\ UNCHANGED diskVars]_vars

\* the own file loaded at time 1 gave "a" the expiration 1 the file holds
C9_Witness ==
    /\ lastOp = Op("loadFile", cacheId, "")
    /\ now = 1
    /\ files[cacheId] = Some(<<<<"a", "v1", 1>>>>)
    /\ cache["a"] = [value |-> "v1", expires |-> 1]
    /\ changesSinceLastSave

C12_DestroyTearsDown ==
    /\ lastOp.name = "destroy"
          => /\ cache = EmptyStore
             /\ lruCache.cache = {}
             /\ LruList(lruCache) = <<>>
             /\ ~serializationCacheValid
             /\ PendingKeys(pendingWrites) = {}
             /\ ~persistTimer
             /\ ~batchWriteTimer
             /\ events \in {<<"destroy">>, <<"error">>}
             /\ events = <<"destroy">>
                   => /\ files[cacheId] = None
                      /\ ~changesSinceLastSave
                      /\ lastOp.arg = "true" => (~dirExists /\ \A i \in CacheIds : files[i] = None)
    /\ destroyed
          => /\ ~persistTimer
             /\ ~batchWriteTimer
             /\ lastOp.name \notin {"persistTimer", "batchWriteTimer"}

\* time has passed on an instance destroyed with its directory, and no timer
\* has fired
C12_Witness ==
    /\ destroyed
    /\ lastOp.name = "tick"
    /\ now = MaxTime
    /\ ~dirExists
    /\ cache = EmptyStore
    /\ ~changesSinceLastSave

(* ------------------------- C13 ----------------------------------------- *)
\* C13: with auto-persist armed and file writes succeeding, a dirty cache
\* eventually becomes clean by the interval's save alone (unless the interval
\* is stopped first); the interval's save that makes it clean leaves the cache
\* file holding the Memory Store's entries; and no interval save runs while
\* the interval is stopped.
C13_AutoPersistSaves ==
    /\ (changesSinceLastSave /\ persistTimer) ~> (~changesSinceLastSave \/ ~persistTimer)
    /\ [][(lastOp'.name = "persistTimer" /\ changesSinceLastSave /\ ~changesSinceLastSave')
             => (files'[cacheId] # None /\ FileItems' = MemItems(cache', now'))]_vars
    /\ [][~persistTimer => lastOp'.name # "persistTimer"]_vars

(* ------------------------- C14 ----------------------------------------- *)
\* every tracker over the keys, whatever capacity built it; EmptyLRU is the
\* tracker of capacity 0 and the tracker lost entirely
Trackers ==
    {EmptyLRU}
        \cup {LruTouch(EmptyLRU, k, Cardinality(Keys)) : k \in Keys}
        \cup {LruTouch(LruTouch(EmptyLRU, j, Cardinality(Keys)), k, Cardinality(Keys)) : j, k \in Keys}

\* the instance and its disk without the tracker
Untracked(s) == [s EXCEPT !.lruCache = EmptyLRU]

\* C14: in every reachable state, every call gives the same store, flags,
\* pending writes, timers, files and notifications whatever tracker the
\* instance holds (so get's value, the key list and the text save writes never
\* depend on the tracker or its capacity); and a key that a set or get of
\* another key drops from the tracker keeps its entry in the Memory Store and
\* the value get returns for it.
C14_TrackerIsAdvisory ==
    /\ [](\A l \in Trackers :
             LET other == [Self EXCEPT !.lruCache = l]
             IN /\ \A in \in SetInputs :
                       Untracked(set(other, in[1], in[2], in[3], now))
                           = Untracked(set(Self, in[1], in[2], in[3], now))
                /\ \A key \in Keys :
                       /\ Untracked(get(other, key, now)) = Untracked(get(Self, key, now))
                       /\ Untracked(delete(other, key)) = Untracked(delete(Self, key))
                /\ \A io \in {"ok", "writeFail"} :
                       /\ Untracked(clear(other, io, now)) = Untracked(clear(Self, io, now))
                       /\ \A force \in BOOLEAN :
                              Untracked(save(other, force, io, now)) = Untracked(save(Self, force, io, now))
                /\ \A id \in CacheIds :
                       Untracked(load(other, id)) = Untracked(load(Self, id)))
    /\ [][\A k \in Keys :
             (/\ k \in lruCache.cache
              /\ k \notin lruCache'.cache
              /\ lastOp'.name \in {"set", "get"}
              /\ lastOp'.arg # k)
                 => (cache'[k] = cache[k] /\ Got(k)' = Got(k))]_vars

\* get("b") returned its value and the tracker holds "b" alone; "a", set
\* earlier and saved to the file, is untracked and still returned
C14_Witness ==
    /\ lastOp = Op("get", "b", "v1")
    /\ lruCache.cache = {"b"}
    /\ Got("a") = "v1"
    /\ files[cacheId] = Some(<<<<"a", "v1", 0>>, <<"b", "v1", 0>>>>)
    /\ ~changesSinceLastSave

(* ------------------------- C15 ----------------------------------------- *)
\* the reference LRU list, most recently touched first
C15_RefTouch(list, key, capacity) ==
    LET moved == <<key>> \o SelectSeq(list, LAMBDA x : x # key)
    IN IF Len(moved) > capacity THEN SubSeq(moved, 1, Len(moved) - 1) ELSE moved

C15_RefDelete(list, key) == SelectSeq(list, LAMBDA x : x # key)

\* the keys on the linked list, walking prev from tail
RECURSIVE C15_WalkBack(_, _, _)
C15_WalkBack(l, node, fuel) ==
    IF node = Null \/ fuel = 0 THEN <<>> ELSE <<node>> \o C15_WalkBack(l, l.prev[node], fuel - 1)

C15_Reverse(list) == [i \in 1..Len(list) |-> list[Len(list) + 1 - i]]

\* C15: on a tracker of capacity LruCapacity the number of tracked keys never
\* exceeds the capacity; the map and the linked list hold the same keys, each
\* once, the prev links mirror the next links, head has no prev and tail no
\* next; and touch, delete and clear change the list as they change the
\* reference LRU list: touch moves the key to the front and, on overflow,
\* drops the last (least recently touched) key and no other.
C15_TrackerMatchesReference ==
    /\ [](LET list == LruList(lruCache)
          IN /\ Cardinality(lruCache.cache) <= LruCapacity
             /\ Len(list) = Cardinality(lruCache.cache)
             /\ {list[i] : i \in 1..Len(list)} = lruCache.cache
             /\ C15_WalkBack(lruCache, lruCache.tail, Cardinality(LruKeys) + 1) = C15_Reverse(list)
             /\ lruCache.head # Null => lruCache.prev[lruCache.head] = Null
             /\ lruCache.tail # Null => lruCache.next[lruCache.tail] = Null
             /\ (lruCache.head = Null) = (lruCache.cache = {})
             /\ (lruCache.tail = Null) = (lruCache.cache = {}))
    /\ [][/\ lastOp'.name = "touch"
               => LruList(lruCache') = C15_RefTouch(LruList(lruCache), lastOp'.arg, LruCapacity)
          /\ lastOp'.name = "delete"
               => LruList(lruCache') = C15_RefDelete(LruList(lruCache), lastOp'.arg)
          /\ lastOp'.name = "clear"
               => LruList(lruCache') = <<>>]_vars

\* a full tracker after the touch of "c": what was tracked before "b" is gone
C15_Witness ==
    /\ lastOp = Op("touch", "c", "")
    /\ Cardinality(lruCache.cache) = LruCapacity
    /\ lruCache.head = "c"
    /\ lruCache.tail = "b"
    /\ lruCache.prev["b"] # Null
    /\ "a" \notin lruCache.cache

(* ------------------------- C16 ----------------------------------------- *)
\* C16: in every reachable state a flush of the pending writes, whatever calls
\* it, changes nothing but the coalescer timer (disarmed) and the pending
\* writes (emptied); the timer callback is such a flush and emits nothing; a
\* set, flushing or not, writes no file, keeps the snapshot text and leaves
\* the cache dirty; and the cache file gets new text only from a save that
\* emits `save`.
C16_FlushDoesNoIO ==
    /\ [](LET s == flushPendingWrites(Self)
          IN /\ ~s.batchWriteTimer
             /\ PendingKeys(s.pendingWrites) = {}
             /\ s.files = files
             /\ s.dirExists = dirExists
             /\ s.cache = cache
             /\ s.lruCache = lruCache
             /\ s.changesSinceLastSave = changesSinceLastSave
             /\ s.serializationCache = serializationCache
             /\ s.serializationCacheValid = serializationCacheValid
             /\ s.persistTimer = persistTimer
             /\ s.events = <<>>)
    /\ [][lastOp'.name = "batchWriteTimer"
             => /\ ~batchWriteTimer'
                /\ PendingKeys(pendingWrites') = {}
                /\ events' = <<>>
                /\ UNCHANGED <<cache, lruCache, changesSinceLastSave, serializationCache,
                               serializationCacheValid, persistTimer, files, dirExists>>]_vars
    /\ [][lastOp'.name = "set"
             => /\ UNCHANGED <<files, dirExists, serializationCache>>
                /\ changesSinceLastSave']_vars
    /\ [][(files'[cacheId] # files[cacheId] /\ files'[cacheId] # None) => Emitted("save")']_vars

\* the timer flushed the pending writes of a cache that was never saved: it
\* is still dirty and has no file
C16_Witness ==
    /\ lastOp.name = "batchWriteTimer"
    /\ PendingKeys(pendingWrites) = {}
    /\ ~batchWriteTimer
    /\ changesSinceLastSave
    /\ files[cacheId] = None
    /\ Got("a") = "v1"
    /\ Got("b") = "v1"

(* ------------------------- C17 ----------------------------------------- *)
\* C17: the pending writes always hold fewer keys than the threshold
\* batchWriteSize.
C17_PendingBelowThreshold ==
    Cardinality(PendingKeys(pendingWrites)) < batchWriteSize

(* ------------------------- C18 ----------------------------------------- *)
\* C18: removeCacheFile returns true exactly when the cache file existed and
\* is gone afterwards; when it returns false no file changed; it never removes
\* the cache directory or another file, and it leaves the Memory Store, the
\* tracker, the pending writes and the dirty flag as they were.
C18_RemoveCacheFileOnly ==
    [][lastOp'.name = "removeCacheFile"
          => /\ lastOp'.ret = Bool(files[cacheId] # None /\ files'[cacheId] = None)
             /\ lastOp'.ret = "false" => files' = files
             /\ dirExists' = dirExists
             /\ \A i \in CacheIds \ {cacheId} : files'[i] = files[i]
             /\ UNCHANGED <<cache, lruCache, pendingWrites, changesSinceLastSave>>]_vars

\* removeCacheFile returned true on a saved cache: the sibling file and the
\* directory are still there, and so is the stored entry
C18_Witness ==
    /\ lastOp = Op("removeCacheFile", "", "true")
    /\ files[cacheId] = None
    /\ files["other"] = Some(OtherText)
    /\ dirExists
    /\ Got("a") = "v1"
    /\ "a" \in lruCache.cache
    /\ ~changesSinceLastSave

(* ------------------------- C19 ----------------------------------------- *)
\* C19: a loadFileStream of an existing file changes nothing when it is
\* called and when its data arrives (it reports progress); when its end
\* handler runs right after the data, every field of the instance is what
\* loadFile of the same file gives from the same state, onEnd is called once
\* (only there, and the stream is over), and neither `error` nor onError
\* occurs in any of the three steps.
C19_StreamEqualsLoadFile ==
    /\ [][(lastOp'.name = "loadFileStream" /\ files[lastOp'.arg] # None)
             => (events' = <<>> /\ stream' # None /\ UNCHANGED <<memVars, diskVars>>)]_vars
    /\ [][(lastOp'.name = "streamData" /\ files[stream[1].id] # None)
             => (events' = <<"onProgress">> /\ UNCHANGED <<memVars, diskVars>>)]_vars
    /\ [][(lastOp.name = "streamData" /\ Emitted("onProgress") /\ lastOp'.name = "streamEnd")
             => LET ref == loadFile(Self, stream[1].id)
                IN /\ cache' = ref.cache
                   /\ changesSinceLastSave' = ref.changesSinceLastSave
                   /\ changesSinceLastSave'
                   /\ lruCache' = ref.lruCache
                   /\ serializationCache' = ref.serializationCache
                   /\ serializationCacheValid' = ref.serializationCacheValid
                   /\ pendingWrites' = ref.pendingWrites
                   /\ batchWriteTimer' = ref.batchWriteTimer
                   /\ persistTimer' = ref.persistTimer
                   /\ events' = <<"onEnd">>
                   /\ stream' = None
                   /\ UNCHANGED diskVars]_vars
    /\ [](Emitted("onEnd") => lastOp.name = "streamEnd")

\* the end of a stream of the sibling file: its entry replaced the value of
\* "a", beside the entry of "b" that was set
C19_Witness ==
    /\ lastOp.name = "streamEnd"
    /\ events = <<"onEnd">>
    /\ stream = None
    /\ Got("a") = "v2"
    /\ Got("b") = "v1"
    /\ changesSinceLastSave

(* ------------------------- C20 ----------------------------------------- *)
\* C20: whenever the snapshot cache is marked valid, its text is the encoding
\* of the Memory Store's current item list.
C20_ValidSnapshotIsCurrent ==
    serializationCacheValid => serializationCache = Some(Stringify(MemItems(cache, now)))

(* ------------------------- C21 ----------------------------------------- *)
\* the file entries a load or loadFile of the step replays hold the key
C21_Replayed(op, key) ==
    /\ op.name \in {"load", "loadFile"}
    /\ files[op.arg] # None
    /\ \E i \in 1..Len(files[op.arg][1]) : files[op.arg][1][i][1] = key

\* C21: every pending key has an entry in the Memory Store (live or expired);
\* after each step the store's value of a pending key is the pending value,
\* or the step is a load that replayed the key, or the step changed neither
\* the store's entry nor the pending value (so the store's value is the
\* pending one or a later one); and what get does and returns is the same
\* whatever the pending writes hold.
C21_PendingIsInStore ==
    /\ [](\A k \in Keys : pendingWrites[k] # Undefined => cache[k] # Absent)
    /\ [][\A k \in Keys :
             pendingWrites'[k] # Undefined
                 => \/ cache'[k].value = pendingWrites'[k]
                    \/ C21_Replayed(lastOp', k)
                    \/ (cache'[k] = cache[k] /\ pendingWrites'[k] = pendingWrites[k])]_vars
    /\ [](\A k \in Keys, pw \in [Keys -> Values \cup {Undefined}] :
             /\ get([Self EXCEPT !.pendingWrites = pw], k, now)
                   = [get(Self, k, now) EXCEPT !.pendingWrites = pw]
             /\ lastOp.name = "get" /\ lastOp.arg = k /\ pendingWrites[k] # Undefined
                   => lastOp.ret \in {Undefined, cache[k].value})

\* "a" is pending with the value that was set while the store holds the
\* later value a load replayed
C21_Witness ==
    /\ pendingWrites["a"] = "v1"
    /\ cache["a"].value = "v2"
    /\ pendingWrites["b"] = "v1"
    /\ lastOp = Op("get", "a", "v2")

(* ------------------------- C22 ----------------------------------------- *)
\* C22: right after set(k, v) and right after delete(k), either k is in the
\* pending writes with the coalescer timer armed, or a flush has just run (no
\* pending write, no timer).
C22_MutationsArePending ==
    lastOp.name \in {"set", "delete"}
        => \/ pendingWrites[lastOp.arg] # Undefined /\ batchWriteTimer
           \/ PendingKeys(pendingWrites) = {} /\ ~batchWriteTimer

(* ------------------------- C23 ----------------------------------------- *)
\* C23: get(k) returns what the Memory Store returns for k; on a hit k is
\* tracked afterwards, at the head of the list; on a miss or an expired entry
\* k is in neither the map nor the list of the tracker; the store, the dirty
\* flag, the snapshot cache, the pending writes, both timers and the disk
\* are unchanged and nothing is emitted.
C23_GetOnlyTracks ==
    [][lastOp'.name = "get"
          => LET k == lastOp'.arg
             IN /\ lastOp'.ret = MemGet(cache, k, now)
                /\ lastOp'.ret # Undefined
                      => (k \in lruCache'.cache /\ lruCache'.head = k)
                /\ lastOp'.ret = Undefined
                      => (k \notin lruCache'.cache /\ ~InList(lruCache', k))
                /\ events' = <<>>
                /\ UNCHANGED <<cache, changesSinceLastSave, serializationCache,
                               serializationCacheValid, pendingWrites, batchWriteTimer,
                               persistTimer, files, dirExists>>]_vars

\* get("a") found the entry of "a" expired: the entry is still in the store
\* and pending, and the tracker is empty
C23_Witness ==
    /\ lastOp = Op("get", "a", Undefined)
    /\ cache["a"] = [value |-> "v1", expires |-> 1]
    /\ now = MaxTime
    /\ pendingWrites["a"] = "v1"
    /\ batchWriteTimer
    /\ lruCache = EmptyLRU

(* ------------------------- C24 ----------------------------------------- *)
\* C24: whenever a write is pending the coalescer timer is armed; and, the
\* armed timer firing after its delay, every pending key is eventually
\* dropped from the pending writes, whatever is called meanwhile.
C24_PendingHasTimer ==
    /\ [](PendingKeys(pendingWrites) # {} => batchWriteTimer)
    /\ \A k \in Keys : (pendingWrites[k] # Undefined) ~> (pendingWrites[k] = Undefined)

\* both keys are pending under the one armed timer, as time passes
C24_Witness ==
    /\ PendingKeys(pendingWrites) = Keys
    /\ batchWriteTimer
    /\ lastOp.name = "tick"
    /\ now = MaxTime

(* ------------------------- C25 ----------------------------------------- *)
\* the keys of the entries a text decodes to
C25_TextKeys(text) == {Parse(text)[i].key : i \in 1..Len(text)}

\* C25: when the end handler of a streaming load runs, whatever was called
\* since loadFileStream, every key of the text the stream read gets the
\* text's value and expiration, every other key keeps the entry it has at that
\* moment, and the dirty flag is true afterwards; until then the stream
\* changes no entry.
C25_StreamReplaysAtEnd ==
    /\ [][lastOp'.name = "streamEnd"
             => LET text == stream[1].streamData[1]
                    items == Parse(text)
                IN /\ \A i \in 1..Len(items) :
                         cache'[items[i].key]
                             = [value |-> items[i].value, expires |-> items[i].expires]
                   /\ \A k \in Keys \ C25_TextKeys(text) : cache'[k] = cache[k]
                   /\ changesSinceLastSave']_vars
    /\ [][lastOp'.name \in {"loadFileStream", "streamData"} => cache' = cache]_vars

\* the stream of the sibling file ended on a cache that was saved with "b"
\* alone and on which "a" was set since: "a" has the file's value, not the
\* pending one; "b", which the file does not hold, keeps its value; the cache
\* is dirty
C25_Witness ==
    /\ lastOp.name = "streamEnd"
    /\ cache["a"].value = "v2"
    /\ cache["b"].value = "v1"
    /\ pendingWrites["a"] = "v1"
    /\ files[cacheId] = Some(<<<<"b", "v1", 0>>>>)
    /\ changesSinceLastSave

====
